---------------------------- MODULE Spec2Model ----------------------------
(***************************************************************************)
(* State-machine model of the oneDNN deconvolution glue                    *)
(* (src/operator/nn/mkldnn/mkldnn_deconvolution-inl.h) and of the          *)
(* _npi_rayleigh operator registration                                      *)
(* (src/operator/numpy/random/np_rayleigh_op.cc).                           *)
(*                                                                         *)
(* The module holds four independent specifications over one set of        *)
(* variables; a specification leaves the variables of the other three      *)
(* at their idle values:                                                   *)
(*   SpecSwap     IOLogicalSwapDesc / GetDeconvWeightsDesc (pure functions) *)
(*   Spec         MKLDNNDeconvBwd: constructor and the Execute helpers      *)
(*   SpecCreator  DeconvDescCreator                                         *)
(*   SpecRayleigh the nnvm callbacks of _npi_rayleigh and its backward op   *)
(***************************************************************************)
EXTENDS Integers, Sequences, FiniteSets, TLC

VARIABLES
  \* ---- SpecSwap
  sw_group,   \* num_group argument (fixed for a run)
  sw_orig,    \* the descriptor the run started from
  sw_prev,    \* the descriptor the last IOLogicalSwapDesc call received
  sw_desc,    \* the descriptor the last IOLogicalSwapDesc call returned
  sw_count,   \* number of IOLogicalSwapDesc calls so far
  sw_oob,     \* some call indexed the order vector out of range
  sw_arr,     \* weights NDArray last handed to GetDeconvWeightsDesc
  sw_wdesc,   \* what GetDeconvWeightsDesc returned for it
  \* ---- Spec (MKLDNNDeconvBwd)
  param,          \* DeconvolutionParam: its num_group and no_bias
  inputs,         \* the backward operator's input vector (tensor names)
  pc,             \* position inside MKLDNNDeconvBwd's constructor
  fwd_pd,         \* the constructor's local forward primitive descriptor
  bwd_data_pd,    \* member
  bwd_weights_pd, \* member
  bwd_data,       \* member
  bwd_weights,    \* member
  created,        \* the library objects created so far, in creation order
  weights,        \* NDArray read_tensors.weights
  weights_grad,   \* NDArray write_tensors.weights_grad
  req,            \* the req vector of the running Execute
  call,           \* the last helper call: its arguments and what it returned
  out_grad_mem,   \* the out gradient memory the data gradient step produced
  \* ---- SpecCreator (DeconvDescCreator)
  data_md, weights_md, bias_md, out_md,  \* memory descriptors (fields)
  strides, padding, dilates,             \* memory::dims (fields)
  cr_call,        \* the last call on the creator: its arguments and its result
  \* ---- SpecRayleigh (_npi_rayleigh, _backward_broadcast_rayleigh)
  op_param,       \* the node's parsed NumpyRayleighParam
  in_attrs,       \* the node's input type vector
  out_attrs,      \* the node's output type vector
  op_results,     \* what each registered callback answered when last asked
  infer_in        \* the input type vector the last FInferType call received

swapVars == <<sw_group, sw_orig, sw_prev, sw_desc, sw_count, sw_oob, sw_arr, sw_wdesc>>

bwdVars == <<param, inputs, pc, fwd_pd, bwd_data_pd, bwd_weights_pd,
             bwd_data, bwd_weights, created, weights, weights_grad, req, call,
             out_grad_mem>>

creatorVars == <<data_md, weights_md, bias_md, out_md, strides, padding, dilates, cr_call>>

opVars == <<op_param, in_attrs, out_attrs, op_results, infer_in>>

vars == <<swapVars, bwdVars, creatorVars, opVars>>

\* "no descriptor": a default-constructed, zero-size memory::desc
NoDesc == [ndims |-> 0, format_kind |-> "undef", inner_nblks |-> 0, axes |-> << >>]
\* "no array"
NoArr == [ndim |-> 0, shape |-> << >>]

(***************************************************************************)
(* Bounds of the model.                                                    *)
(***************************************************************************)
MaxNdims == 5      \* descriptors handed to IOLogicalSwapDesc have 0..MaxNdims axes
MaxDim == 2        \* every dimension is in 1..MaxDim
MaxGroup == 2      \* num_group is in 1..MaxGroup
MaxSwaps == 3      \* IOLogicalSwapDesc is applied at most MaxSwaps times in a row
MaxChannels == 2   \* weights have 1..MaxChannels channels per group, each way
MaxStride == 2     \* strides are in 1..MaxStride, padding and dilates below MaxStride
MaxScale == 2      \* a given scale parameter is one of 1..MaxScale

(***************************************************************************)
(* mkldnn::memory::desc.  axes[i] is logical axis i (0-based, as in C++):  *)
(* its dimension, its stride (0 when format_kind is "any") and a tag `ax`  *)
(* naming the axis the descriptor was created with at that position (the   *)
(* letter of a format tag such as oihw).                                   *)
(***************************************************************************)
RECURSIVE ProdFrom(_, _, _)
ProdFrom(dims, i, n) == IF i >= n THEN 1 ELSE dims[i] * ProdFrom(dims, i + 1, n)

\* memory::desc(dims, data_type, format_tag::any)
AnyDesc(dims, n) ==
  [ndims |-> n, format_kind |-> "any", inner_nblks |-> 0,
   axes |-> [i \in 0..(n - 1) |-> [ax |-> i, dim |-> dims[i], stride |-> 0]]]

\* memory::desc(dims, data_type, GetDefaultFormat(ndims)): plain row-major strides
DefaultDesc(dims, n) ==
  [ndims |-> n, format_kind |-> "blocked", inner_nblks |-> 0,
   axes |-> [i \in 0..(n - 1) |->
               [ax |-> i, dim |-> dims[i], stride |-> ProdFrom(dims, i + 1, n)]]]

DimsOf(desc) == [i \in 0..(desc.ndims - 1) |-> desc.axes[i].dim]

\* mkldnn::memory::desc::permute_axes: axis d of the source becomes axis
\* perm[d] of the result (dims, strides and inner-block indices move together).
PermuteAxes(desc, perm) ==
  [desc EXCEPT !.axes = [j \in 0..(desc.ndims - 1) |->
                           desc.axes[CHOOSE i \in 0..(desc.ndims - 1) : perm[i] = j]]]

\* static_cast<int>(num_group > 1)
SwapOffset(num_group) == IF num_group > 1 THEN 1 ELSE 0

\* order[offset + 0] or order[offset + 1] lies outside std::vector<int> order(ndims)
SwapOutOfRange(ndims, num_group) == SwapOffset(num_group) + 1 >= ndims

\* std::iota(order) followed by std::swap(order[offset + 0], order[offset + 1])
SwapOrder(ndims, num_group) ==
  LET iota == [i \in 0..(ndims - 1) |-> i]
      offset == SwapOffset(num_group)
  IN  [iota EXCEPT ![offset + 0] = iota[offset + 1], ![offset + 1] = iota[offset + 0]]

\* A plausible slip: the group axis is not skipped (offset is always 0).
IOLogicalSwapDescNoGroupOffset(desc, num_group) ==
  PermuteAxes(desc, SwapOrder(desc.ndims, 1))

\* A plausible slip: the channel axis at `offset` is moved behind all the
\* others (std::rotate) instead of being exchanged with its neighbour.
IOLogicalSwapDescRotate(desc, num_group) ==
  LET offset == SwapOffset(num_group)
      n == desc.ndims
  IN  PermuteAxes(desc, [i \in 0..(n - 1) |->
                           IF i < offset THEN i
                           ELSE IF i = offset THEN n - 1
                           ELSE i - 1])

\* IOLogicalSwapDesc when both indices are inside the order vector.
IOLogicalSwapDesc(desc, num_group) ==
  PermuteAxes(desc, SwapOrder(desc.ndims, num_group))

\* The descriptor's value when the call failed (permute_axes threw).
Failed == [ndims |-> 0, format_kind |-> "failed", inner_nblks |-> 0, axes |-> << >>]

\* What one call of IOLogicalSwapDesc can return.  With an index out of range
\* std::swap reads and writes past the vector (undefined behaviour): the order
\* handed to permute_axes is then either still the identity, and the
\* descriptor comes back unchanged, or no permutation, and permute_axes throws.
IOLogicalSwapDescOutcomes(desc, num_group) ==
  IF SwapOutOfRange(desc.ndims, num_group)
    THEN {desc, Failed}
    ELSE {IOLogicalSwapDesc(desc, num_group)}

(***************************************************************************)
(* Weights NDArray: its shape.  GetWeightDesc (mkldnn_base-inl.h) returns  *)
(* the shape as a format-any descriptor, with the leading axis split into  *)
(* (num_group, shape[0] / num_group) when num_group > 1.                   *)
(***************************************************************************)
GetWeightDesc(arr, num_group) ==
  IF num_group = 1
    THEN AnyDesc(arr.shape, arr.ndim)
    ELSE AnyDesc([i \in 0..arr.ndim |->
                    IF i = 0 THEN num_group
                    ELSE IF i = 1 THEN arr.shape[0] \div num_group
                    ELSE arr.shape[i - 1]], arr.ndim + 1)

\* Version of GetWeightDesc for deconvolution (with swap)
GetDeconvWeightsDesc(arr, num_group) ==
  IOLogicalSwapDesc(GetWeightDesc(arr, num_group), num_group)

\* The weights NDArray whose shape is dims, with the leading axis made a
\* multiple of num_group (Deconvolution checks that it is divisible).
WeightsArrayOf(desc, num_group) ==
  [ndim |-> desc.ndims,
   shape |-> [i \in 0..(desc.ndims - 1) |->
                IF i = 0 THEN desc.axes[0].dim * num_group ELSE desc.axes[i].dim]]

SwapInputs ==
  UNION { { AnyDesc(d, n) : d \in [0..(n - 1) -> 1..MaxDim] } \cup
          { DefaultDesc(d, n) : d \in [0..(n - 1) -> 1..MaxDim] } :
          n \in 0..MaxNdims }

InitSwap ==
  /\ sw_group \in 1..MaxGroup
  /\ sw_orig \in SwapInputs
  /\ sw_desc = sw_orig
  /\ sw_prev = NoDesc
  /\ sw_count = 0
  /\ sw_oob = FALSE
  /\ sw_arr = NoArr
  /\ sw_wdesc = NoDesc

\* One call desc := IOLogicalSwapDesc(desc, num_group)
ApplySwap ==
  /\ sw_desc # Failed
  /\ sw_count < MaxSwaps
  /\ \E r \in IOLogicalSwapDescOutcomes(sw_desc, sw_group) : sw_desc' = r
  /\ sw_prev' = sw_desc
  /\ sw_count' = sw_count + 1
  /\ sw_oob' = (sw_oob \/ SwapOutOfRange(sw_desc.ndims, sw_group))
  /\ UNCHANGED <<sw_group, sw_orig, sw_arr, sw_wdesc, bwdVars, creatorVars, opVars>>

\* One call GetDeconvWeightsDesc(weights, num_group), for the weights array
\* shaped as the run's descriptor (weights of a 1D, 2D or 3D deconvolution).
CallGetDeconvWeightsDesc ==
  /\ sw_arr = NoArr
  /\ sw_orig.ndims \in 3..5
  /\ sw_arr' = WeightsArrayOf(sw_orig, sw_group)
  /\ sw_wdesc' = GetDeconvWeightsDesc(WeightsArrayOf(sw_orig, sw_group), sw_group)
  /\ UNCHANGED <<sw_group, sw_orig, sw_prev, sw_desc, sw_count, sw_oob, bwdVars, creatorVars, opVars>>

NextSwap == ApplySwap \/ CallGetDeconvWeightsDesc

(***************************************************************************)
(* MKLDNNDeconvBwd                                                         *)
(***************************************************************************)
\* enum DeconvolutionOpInputs {kData, kWeight, kBias}, DeconvolutionOpOutputs {kOut}
kData == 0
kWeight == 1
kBias == 2
kOut == 0

\* enum OpReqType; in a condition every value but kNullOp (0) is true
OpReqTypes == {"kNullOp", "kWriteTo", "kWriteInplace", "kAddTo"}
Truthy(r) == r # "kNullOp"

\* The req vector of the backward operator: one entry per gradient it writes
\* (data, weights, and bias unless no_bias).
ReqVectors(nb) == [0..(IF nb THEN 1 ELSE 2) -> OpReqTypes]
ReqSize(rq) == Cardinality(DOMAIN rq)

\* MKLDNNDeconvBwd::ReadTensors::ReadTensors(no_bias, inputs)
ReadTensors(nb, in) ==
  [data |-> in[kData + 1],
   weights |-> in[kWeight + 1],
   bias |-> IF nb THEN "nullptr" ELSE in[kBias + 1],
   out_grad |-> in[kOut]]

\* MKLDNNDeconvFwd::Tensors::Tensors(data, weights, bias, out)
FwdTensors(data, wgt, bias, out) ==
  [data |-> data, weights |-> wgt, bias |-> bias, out |-> out]

NoPd == [kind |-> "none", hint |-> "none"]
NoPrim == [kind |-> "none", pd |-> NoPd]

\* NDArray::IsMKLDNNData (ndarray.h): the array holds oneDNN memory whose
\* descriptor is not the default (plain, row-major) one.
IsDefaultFormat(desc) ==
  /\ desc.format_kind = "blocked"
  /\ desc.inner_nblks = 0
  /\ \A i \in 0..(desc.ndims - 2) : desc.axes[i].stride >= desc.axes[i + 1].stride

IsMKLDNNData(arr) == arr.has_mem /\ ~IsDefaultFormat(arr.mem_desc)

\* A descriptor in a blocked (padded) layout of the library's choice
BlockedDesc(dims, n) == [DefaultDesc(dims, n) EXCEPT !.inner_nblks = 1]

\* The layouts the library may choose for weights handed over as
\* GetDeconvWeightsDesc(weights, num_group) with format any: plain in the
\* swapped axis order, plain in the array's own axis order, or blocked.
WeightsFormats(arr, g) ==
  LET own == GetWeightDesc(arr, g)
      swp == GetDeconvWeightsDesc(arr, g)
  IN  { DefaultDesc(DimsOf(swp), swp.ndims),
        IOLogicalSwapDesc(DefaultDesc(DimsOf(own), own.ndims), g),
        BlockedDesc(DimsOf(swp), swp.ndims) }

\* The layouts the library may choose for the out gradient (diff_dst)
OutFormats == {"plain", "blocked"}

\* Applies IOLogicalSwapDesc to MKLDNN memory of arr
IOLogicalSwapMKLDNNMem(arr, g) ==
  LET temp == GetWeightDesc(arr, g)
      desc == IF IsMKLDNNData(arr)
                THEN arr.mem_desc
                ELSE DefaultDesc(DimsOf(temp), temp.ndims)
  IN  [arr EXCEPT !.has_mem = TRUE, !.mem_desc = IOLogicalSwapDesc(desc, g)]

\* The indices of req that IOSwapWeightsTensors reads (|| and && short-circuit)
SwapReqReads(rq) ==
  {kData, kWeight} \cup
  (IF ~Truthy(rq[kWeight]) /\ ReqSize(rq) < kBias THEN {kBias} ELSE {})

\* The condition under which IOSwapWeightsTensors swaps weights_grad
SwapsWeightsGrad(rq) ==
  Truthy(rq[kWeight]) \/ (ReqSize(rq) < kBias /\ Truthy(rq[kBias]))

\* The condition under which IOSwapWeightsTensors swaps weights
SwapsWeights(rq) == Truthy(rq[kData])

NoCall == [name |-> "none"]

\* const mkldnn::memory* that is nullptr
NullMem == [desc |-> "none", made_by |-> "nullptr"]

WeightShapes(g) ==
  { [ndim |-> 3, shape |-> [i \in 0..2 |-> IF i = 0 THEN ci * g ELSE IF i = 1 THEN co ELSE 2],
     has_mem |-> FALSE, mem_desc |-> NoDesc] :
    ci \in 1..MaxChannels, co \in 1..MaxChannels }

InitBwd ==
  /\ param \in [num_group : 1..MaxGroup, no_bias : BOOLEAN]
  /\ inputs = [i \in 0..(IF param.no_bias THEN 2 ELSE 3) |->
                 IF i = 0 THEN "out_grad" ELSE IF i = 1 THEN "data"
                 ELSE IF i = 2 THEN "weights" ELSE "bias"]
  /\ pc = "start"
  /\ fwd_pd = NoPd
  /\ bwd_data_pd = NoPd
  /\ bwd_weights_pd = NoPd
  /\ bwd_data = NoPrim
  /\ bwd_weights = NoPrim
  /\ created = << >>
  /\ weights \in WeightShapes(param.num_group)
  /\ weights_grad = weights
  /\ req = << >>
  /\ call = NoCall
  /\ out_grad_mem = NullMem

\* const auto& fwd_pd = MKLDNNDeconvFwd::CreatePrimitiveDesc(param, Tensors(...))
CtorCreateFwdPd ==
  /\ pc = "start"
  /\ LET rt == ReadTensors(param.no_bias, inputs) IN
       fwd_pd' = [kind |-> "fwd_pd", hint |-> "none",
                  tensors |-> FwdTensors(rt.data, rt.weights, rt.bias, rt.out_grad),
                  serial |-> Len(created) + 1]
  /\ created' = Append(created, "fwd_pd")
  /\ pc' = "fwd_pd"
  /\ UNCHANGED <<param, inputs, bwd_data_pd, bwd_weights_pd, bwd_data,
                 bwd_weights, weights, weights_grad, req, call, out_grad_mem,
                 swapVars, creatorVars, opVars>>

\* bwd_data_pd = CreateDataPrimitiveDesc(param, read_tensors, *fwd_pd)
CtorCreateDataPd ==
  /\ pc = "fwd_pd"
  /\ \E dd \in OutFormats :
       bwd_data_pd' = [kind |-> "bwd_data_pd", hint |-> fwd_pd,
                       diff_dst_desc |-> dd, serial |-> Len(created) + 1]
  /\ created' = Append(created, "bwd_data_pd")
  /\ pc' = "bwd_data_pd"
  /\ UNCHANGED <<param, inputs, fwd_pd, bwd_weights_pd, bwd_data,
                 bwd_weights, weights, weights_grad, req, call, out_grad_mem,
                 swapVars, creatorVars, opVars>>

\* A plausible slip: the weights descriptor is created from a forward
\* descriptor of its own instead of the one the data descriptor used.
CtorCreateWeightsPdOwnFwd ==
  /\ pc = "bwd_data_pd"
  /\ \E wd \in WeightsFormats(weights, param.num_group), dd \in OutFormats :
       bwd_weights_pd' = [kind |-> "bwd_weights_pd",
                          hint |-> [fwd_pd EXCEPT !.serial = Len(created) + 1],
                          diff_weights_desc |-> wd, diff_dst_desc |-> dd,
                          serial |-> Len(created) + 2]
  /\ created' = created \o <<"fwd_pd", "bwd_weights_pd">>
  /\ pc' = "bwd_weights_pd"
  /\ UNCHANGED <<param, inputs, fwd_pd, bwd_data_pd, bwd_data,
                 bwd_weights, weights, weights_grad, req, call, out_grad_mem,
                 swapVars, creatorVars, opVars>>

\* bwd_weights_pd = CreateWeightsPrimitiveDesc(param, read_tensors, *fwd_pd)
CtorCreateWeightsPd ==
  /\ pc = "bwd_data_pd"
  /\ \E wd \in WeightsFormats(weights, param.num_group), dd \in OutFormats :
       bwd_weights_pd' = [kind |-> "bwd_weights_pd", hint |-> fwd_pd,
                          diff_weights_desc |-> wd, diff_dst_desc |-> dd,
                          serial |-> Len(created) + 1]
  /\ created' = Append(created, "bwd_weights_pd")
  /\ pc' = "bwd_weights_pd"
  /\ UNCHANGED <<param, inputs, fwd_pd, bwd_data_pd, bwd_data,
                 bwd_weights, weights, weights_grad, req, call, out_grad_mem,
                 swapVars, creatorVars, opVars>>

\* bwd_data = std::make_shared<deconv_bwd_data_t>(*bwd_data_pd)
CtorCreateData ==
  /\ pc = "bwd_weights_pd"
  /\ bwd_data' = [kind |-> "bwd_data", pd |-> bwd_data_pd]
  /\ created' = Append(created, "bwd_data")
  /\ pc' = "bwd_data"
  /\ UNCHANGED <<param, inputs, fwd_pd, bwd_data_pd, bwd_weights_pd,
                 bwd_weights, weights, weights_grad, req, call, out_grad_mem,
                 swapVars, creatorVars, opVars>>

\* bwd_weights = std::make_shared<deconv_bwd_weights_t>(*bwd_weights_pd)
CtorCreateWeights ==
  /\ pc = "bwd_data"
  /\ bwd_weights' = [kind |-> "bwd_weights", pd |-> bwd_weights_pd]
  /\ created' = Append(created, "bwd_weights")
  /\ pc' = "constructed"
  /\ UNCHANGED <<param, inputs, fwd_pd, bwd_data_pd, bwd_weights_pd,
                 bwd_data, weights, weights_grad, req, call, out_grad_mem,
                 swapVars, creatorVars, opVars>>

\* MKLDNNDeconvBwd::Execute is entered with the operator's req vector; the
\* helpers below are its private steps and receive that vector (or entries of it).
BeginExecute ==
  /\ pc = "constructed"
  /\ req' \in ReqVectors(param.no_bias)
  /\ pc' = "execute"
  /\ UNCHANGED <<param, inputs, fwd_pd, bwd_data_pd, bwd_weights_pd, bwd_data,
                 bwd_weights, created, weights, weights_grad, call, out_grad_mem,
                 swapVars, creatorVars, opVars>>

\* MKLDNNDeconvBwd::IOSwapWeightsTensors(num_group, req, weights, weights_grad)
IOSwapWeightsTensors ==
  /\ pc = "execute"
  /\ weights' = IF SwapsWeights(req)
                  THEN IOLogicalSwapMKLDNNMem(weights, param.num_group)
                  ELSE weights
  /\ weights_grad' = IF SwapsWeightsGrad(req)
                       THEN IOLogicalSwapMKLDNNMem(weights_grad, param.num_group)
                       ELSE weights_grad
  /\ call' = [name |-> "IOSwapWeightsTensors",
              swapped_weights |-> SwapsWeights(req),
              swapped_weights_grad |-> SwapsWeightsGrad(req),
              read_outside |-> (SwapReqReads(req) \ DOMAIN req # {})]
  /\ UNCHANGED <<param, inputs, pc, fwd_pd, bwd_data_pd, bwd_weights_pd,
                 bwd_data, bwd_weights, created, req, out_grad_mem,
                 swapVars, creatorVars, opVars>>

\* A plausible slip: the descriptor is tested for the default format as it is,
\* without the logical swap.
WeightsGradMemNoSwap(g, rq, md) ==
  IF rq = "kWriteTo" /\ IsDefaultFormat(md)
    THEN [out_op |-> "Noop", mem |-> "CreateMKLDNNData", arr |-> "weights_grad",
          desc |-> md, req |-> rq]
    ELSE [out_op |-> "callee's", mem |-> "CreateMKLDNNWeightGrad",
          arr |-> "weights_grad", desc |-> md, req |-> rq]

\* MKLDNNDeconvBwd::WeightsGradMem(num_group, req, weights_grad), with
\* weights_md = bwd_weights_pd->diff_weights_desc().  The result names the
\* call that made the memory and its arguments; what CreateMKLDNNWeightGrad
\* (mkldnn_base.cc) answers is not decided here.
WeightsGradMem(g, rq, md) ==
  IF rq = "kWriteTo" /\ IsDefaultFormat(IOLogicalSwapDesc(md, g))
    THEN [out_op |-> "Noop", mem |-> "CreateMKLDNNData", arr |-> "weights_grad",
          desc |-> md, req |-> rq]
    ELSE [out_op |-> "callee's", mem |-> "CreateMKLDNNWeightGrad",
          arr |-> "weights_grad", desc |-> md, req |-> rq]

\* One call WeightsGradMem(num_group, req[kWeight], write_tensors.weights_grad).
\* NDArray::CreateMKLDNNData(desc) makes the array hold memory of that descriptor.
CallWeightsGradMem ==
  /\ pc = "execute"
  /\ LET r == WeightsGradMem(param.num_group, req[kWeight],
                             bwd_weights_pd.diff_weights_desc) IN
       /\ call' = [name |-> "WeightsGradMem", result |-> r]
       /\ weights_grad' = IF r.mem = "CreateMKLDNNData"
                            THEN [weights_grad EXCEPT !.has_mem = TRUE,
                                                      !.mem_desc = r.desc]
                            ELSE weights_grad
  /\ UNCHANGED <<param, inputs, pc, fwd_pd, bwd_data_pd, bwd_weights_pd,
                 bwd_data, bwd_weights, created, weights, req, out_grad_mem,
                 swapVars, creatorVars, opVars>>

\* NDArray::GetMKLDNNDataReorder(desc) (ndarray.h): memory of the array in the
\* layout desc, reordered when the array is kept in another layout.  made_by
\* names the primitive descriptor the layout was asked for.
GetMKLDNNDataReorder(arr, desc, pd) == [desc |-> desc, made_by |-> pd]

\* MKLDNNDeconvBwd::OutGradMem(out_grad): for calculating the gradient of data
OutGradMemBwdData(out_grad) ==
  GetMKLDNNDataReorder(out_grad, bwd_data_pd.diff_dst_desc, "bwd_data_pd")

\* A plausible slip: the memory of the data step is taken whenever there is
\* one, whatever its layout.
OutGradMemAnyLayout(out_grad, mem) ==
  IF mem # NullMem
    THEN mem
    ELSE GetMKLDNNDataReorder(out_grad, bwd_weights_pd.diff_dst_desc, "bwd_weights_pd")

\* MKLDNNDeconvBwd::OutGradMem(out_grad, out_grad_mem): for calculating the
\* gradient of weights
OutGradMem(out_grad, mem) ==
  IF mem # NullMem /\ mem.desc = bwd_weights_pd.diff_dst_desc
    THEN mem
    ELSE GetMKLDNNDataReorder(out_grad, bwd_weights_pd.diff_dst_desc, "bwd_weights_pd")

\* The data gradient step (ScheduleBwdData) takes the out gradient memory and
\* returns it, to be handed to the weights gradient step.
CallOutGradMemBwdData ==
  /\ pc = "execute"
  /\ out_grad_mem = NullMem
  /\ out_grad_mem' = OutGradMemBwdData(ReadTensors(param.no_bias, inputs).out_grad)
  /\ call' = [name |-> "OutGradMem(out_grad)", result |-> out_grad_mem']
  /\ UNCHANGED <<param, inputs, pc, fwd_pd, bwd_data_pd, bwd_weights_pd, bwd_data,
                 bwd_weights, created, weights, weights_grad, req,
                 swapVars, creatorVars, opVars>>

\* The weights gradient step (ScheduleBwdWeights) asks for the out gradient
\* memory, handing over what the data gradient step returned (nullptr when
\* that step did not run).
CallOutGradMem ==
  /\ pc = "execute"
  /\ call' = [name |-> "OutGradMem(out_grad, out_grad_mem)",
              out_grad_mem |-> out_grad_mem,
              result |-> OutGradMem(ReadTensors(param.no_bias, inputs).out_grad,
                                    out_grad_mem)]
  /\ UNCHANGED <<param, inputs, pc, fwd_pd, bwd_data_pd, bwd_weights_pd, bwd_data,
                 bwd_weights, created, weights, weights_grad, req, out_grad_mem,
                 swapVars, creatorVars, opVars>>

NextBwd ==
  \/ CtorCreateFwdPd
  \/ CtorCreateDataPd
  \/ CtorCreateWeightsPd
  \/ CtorCreateData
  \/ CtorCreateWeights
  \/ BeginExecute
  \/ IOSwapWeightsTensors
  \/ CallWeightsGradMem
  \/ CallOutGradMemBwdData
  \/ CallOutGradMem

IdleSwap ==
  /\ sw_group = 1 /\ sw_orig = NoDesc /\ sw_prev = NoDesc /\ sw_desc = NoDesc
  /\ sw_count = 0 /\ sw_oob = FALSE /\ sw_arr = NoArr /\ sw_wdesc = NoDesc

IdleBwd ==
  /\ param = [num_group |-> 1, no_bias |-> FALSE] /\ inputs = << >> /\ pc = "idle"
  /\ fwd_pd = NoPd /\ bwd_data_pd = NoPd /\ bwd_weights_pd = NoPd
  /\ bwd_data = NoPrim /\ bwd_weights = NoPrim /\ created = << >>
  /\ weights = NoArr /\ weights_grad = NoArr /\ req = << >> /\ call = NoCall
  /\ out_grad_mem = NullMem

(***************************************************************************)
(* DeconvDescCreator                                                       *)
(***************************************************************************)
\* sizeof(float): the tensors are float32
SizeofFloat32 == 4

RECURSIVE DimsProduct(_, _)
DimsProduct(desc, i) ==
  IF i >= desc.ndims THEN 1 ELSE desc.axes[i].dim * DimsProduct(desc, i + 1)

\* GetMemDescSize (mkldnn_base-inl.h): the bytes of the tensor itself, no padding
GetMemDescSize(md) ==
  IF md.ndims = 0 THEN 0 ELSE DimsProduct(md, 0) * SizeofFloat32

\* The bytes an implementation asks for: the tensor itself, or, when the
\* layout is left to the library (format any), possibly a layout blocked by 8
\* channels (axis 1), the tensor with that axis padded to 8.
ImplSizes(md) ==
  IF md.format_kind = "any"
    THEN { GetMemDescSize(md),
           (GetMemDescSize(md) \div md.axes[1].dim) * 8 }
    ELSE { GetMemDescSize(md) }

\* A plausible slip: the output size is compared with the data descriptor.
CheckImplSizeReqOutAgainstData(data_size, weights_size, out_size) ==
  (data_size = GetMemDescSize(data_md) /\ weights_size = GetMemDescSize(weights_md) /\
   out_size = GetMemDescSize(data_md))

\* DeconvDescCreator::CheckImplSizeReq
CheckImplSizeReq(data_size, weights_size, out_size) ==
  (data_size = GetMemDescSize(data_md) /\ weights_size = GetMemDescSize(weights_md) /\
   out_size = GetMemDescSize(out_md))

\* DeconvDescCreator::CreateFwdDesc
CreateFwdDesc ==
  [kind |-> "deconv_fwd_t::desc", prop_kind |-> "forward_training",
   algorithm |-> "deconvolution_direct",
   data |-> data_md, weights |-> weights_md, bias |-> bias_md, out |-> out_md,
   strides |-> strides, dilates |-> dilates,
   padding_l |-> padding, padding_r |-> padding]

\* DeconvDescCreator::CreateBwdDataDesc
CreateBwdDataDesc ==
  [kind |-> "deconv_bwd_data_t::desc", algorithm |-> "deconvolution_direct",
   data |-> data_md, weights |-> weights_md, out |-> out_md,
   strides |-> strides, dilates |-> dilates,
   padding_l |-> padding, padding_r |-> padding]

\* A plausible slip: strides and dilates handed over in the wrong order.
CreateBwdWeightsDescDilatesFirst ==
  [kind |-> "deconv_bwd_weights_t::desc", algorithm |-> "deconvolution_direct",
   data |-> data_md, weights |-> weights_md, bias |-> bias_md, out |-> out_md,
   strides |-> dilates, dilates |-> strides,
   padding_l |-> padding, padding_r |-> padding]

\* DeconvDescCreator::CreateBwdWeightsDesc
CreateBwdWeightsDesc ==
  [kind |-> "deconv_bwd_weights_t::desc", algorithm |-> "deconvolution_direct",
   data |-> data_md, weights |-> weights_md, bias |-> bias_md, out |-> out_md,
   strides |-> strides, dilates |-> dilates,
   padding_l |-> padding, padding_r |-> padding]

\* The descriptor with a plain format imposed: same axes, row-major strides
PlainDesc(md) ==
  [md EXCEPT !.format_kind = "blocked",
             !.axes = [i \in 0..(md.ndims - 1) |->
                         [md.axes[i] EXCEPT !.stride = ProdFrom(DimsOf(md), i + 1, md.ndims)]]]

\* The descriptors (by name) ImposePlainWherePadding may change: those whose
\* size requirement shows padding and whose format is still left open.
PaddedDescs(data_size, weights_size, out_size) ==
  {n \in {"data", "weights", "out"} :
     LET md == IF n = "data" THEN data_md ELSE IF n = "weights" THEN weights_md ELSE out_md
         sz == IF n = "data" THEN data_size ELSE IF n = "weights" THEN weights_size
               ELSE out_size
     IN  md.format_kind = "any" /\ sz # GetMemDescSize(md)}

\* DeconvDescCreator::DeconvDescCreator(param, data, weights, bias, out) for a
\* 1D deconvolution of a batch of one: format-any descriptors of data (1, ci*g, 2),
\* weights (ci*g, co, 2) swapped, bias (co*g) or none, out (1, co*g, w) with
\* w = (2 - 1) * stride - 2 * pad + dilate * (2 - 1) + 2 (dilate counted from 0).
InitCreator ==
  \E g \in 1..MaxGroup, ci \in 1..MaxChannels, co \in 1..MaxChannels,
     has_bias \in BOOLEAN, s \in 1..MaxStride, p \in 0..(MaxStride - 1),
     d \in 0..(MaxStride - 1) :
    /\ data_md = AnyDesc([i \in 0..2 |-> IF i = 0 THEN 1 ELSE IF i = 1 THEN ci * g ELSE 2], 3)
    /\ weights_md = GetDeconvWeightsDesc(
                      [ndim |-> 3,
                       shape |-> [i \in 0..2 |-> IF i = 0 THEN ci * g
                                                ELSE IF i = 1 THEN co ELSE 2]], g)
    /\ bias_md = IF has_bias THEN AnyDesc([i \in 0..0 |-> co * g], 1) ELSE NoDesc
    /\ out_md = AnyDesc([i \in 0..2 |-> IF i = 0 THEN 1 ELSE IF i = 1 THEN co * g
                                        ELSE s - 2 * p + d + 2], 3)
    /\ s - 2 * p + d + 2 >= 1
    /\ strides = <<s>>
    /\ padding = <<p>>
    /\ dilates = <<d>>
    /\ cr_call = NoCall

\* One call CheckImplSizeReq(data_size, weights_size, out_size) with the size
\* requirements of some implementation
CallCheckImplSizeReq ==
  /\ \E ds \in ImplSizes(data_md), ws \in ImplSizes(weights_md), os \in ImplSizes(out_md) :
       cr_call' = [name |-> "CheckImplSizeReq", data_size |-> ds, weights_size |-> ws,
                   out_size |-> os, result |-> CheckImplSizeReq(ds, ws, os)]
  /\ UNCHANGED <<data_md, weights_md, bias_md, out_md, strides, padding, dilates>>
  /\ UNCHANGED <<swapVars, bwdVars, opVars>>

\* One call ImposePlainWherePadding(data_size, weights_size, out_size).  Only
\* the declaration and its comment are at hand: it imposes a plain format on
\* descriptors with padding (which of them in one call is left open) and
\* returns whether it imposed one on any.
CallImposePlainWherePadding ==
  /\ \E ds \in ImplSizes(data_md), ws \in ImplSizes(weights_md), os \in ImplSizes(out_md) :
       LET cand == PaddedDescs(ds, ws, os) IN
       \E chosen \in SUBSET cand :
         /\ (cand # {}) => (chosen # {})
         /\ data_md' = IF "data" \in chosen THEN PlainDesc(data_md) ELSE data_md
         /\ weights_md' = IF "weights" \in chosen THEN PlainDesc(weights_md) ELSE weights_md
         /\ out_md' = IF "out" \in chosen THEN PlainDesc(out_md) ELSE out_md
         /\ cr_call' = [name |-> "ImposePlainWherePadding", data_size |-> ds,
                        weights_size |-> ws, out_size |-> os, result |-> (chosen # {})]
  /\ UNCHANGED <<bias_md, strides, padding, dilates>>
  /\ UNCHANGED <<swapVars, bwdVars, opVars>>

CallCreateFwdDesc ==
  /\ cr_call' = [name |-> "CreateFwdDesc", result |-> CreateFwdDesc]
  /\ UNCHANGED <<data_md, weights_md, bias_md, out_md, strides, padding, dilates>>
  /\ UNCHANGED <<swapVars, bwdVars, opVars>>

CallCreateBwdDataDesc ==
  /\ cr_call' = [name |-> "CreateBwdDataDesc", result |-> CreateBwdDataDesc]
  /\ UNCHANGED <<data_md, weights_md, bias_md, out_md, strides, padding, dilates>>
  /\ UNCHANGED <<swapVars, bwdVars, opVars>>

CallCreateBwdWeightsDesc ==
  /\ cr_call' = [name |-> "CreateBwdWeightsDesc", result |-> CreateBwdWeightsDesc]
  /\ UNCHANGED <<data_md, weights_md, bias_md, out_md, strides, padding, dilates>>
  /\ UNCHANGED <<swapVars, bwdVars, opVars>>

NextCreator ==
  \/ CallCheckImplSizeReq
  \/ CallImposePlainWherePadding
  \/ CallCreateFwdDesc
  \/ CallCreateBwdDataDesc
  \/ CallCreateBwdWeightsDesc

IdleCreator ==
  /\ data_md = NoDesc /\ weights_md = NoDesc /\ bias_md = NoDesc /\ out_md = NoDesc
  /\ strides = << >> /\ padding = << >> /\ dilates = << >> /\ cr_call = NoCall

(***************************************************************************)
(* _npi_rayleigh and _backward_broadcast_rayleigh (np_rayleigh_op.cc)      *)
(***************************************************************************)
\* mshadow type flags; -1 is "not yet inferred"
TypeFlags == {"-1", "kFloat32", "kFloat64", "kInt32"}

\* NumpyRayleighParam: only scale (dmlc::optional<float>) is read here
RayleighParams ==
  {[scale |-> [has_value |-> FALSE, value |-> 0]]} \cup
  {[scale |-> [has_value |-> TRUE, value |-> v]] : v \in 1..MaxScale}

\* .set_num_inputs of _npi_rayleigh
RayleighNumInputs(p) ==
  LET num_inputs == 1
  IN  IF p.scale.has_value THEN num_inputs - 1 ELSE num_inputs

\* .set_num_outputs(2)
RayleighNumOutputs == 2

\* FNumVisibleOutputs
RayleighNumVisibleOutputs(p) == 1

\* A plausible slip: the name list does not follow the parameter.
RayleighListInputNamesAlways(p) == <<"input1">>

\* FListInputNames
RayleighListInputNames(p) ==
  LET num_inputs == IF p.scale.has_value THEN 1 - 1 ELSE 1
  IN  IF num_inputs = 0 THEN << >> ELSE <<"input1">>

\* A plausible slip: only the visible output gets its type.
RayleighInferTypeFirstOnly(p, in, out) ==
  [ret |-> TRUE, in_attrs |-> in, out_attrs |-> [out EXCEPT ![0] = "kFloat32"]]

\* FInferType
RayleighInferType(p, in, out) ==
  [ret |-> TRUE, in_attrs |-> in,
   out_attrs |-> [out EXCEPT ![0] = "kFloat32", ![1] = "kFloat32"]]

\* FGradient: ElemwiseGradUseInOut{"_backward_broadcast_rayleigh"}
RayleighGradientOp == "_backward_broadcast_rayleigh"

\* A plausible slip: the backward operator's inputs do not follow the parameter.
BackwardRayleighNumInputsFixed(p) == 5

\* .set_num_inputs of _backward_broadcast_rayleigh
BackwardRayleighNumInputs(p) ==
  LET num_inputs == 5
  IN  IF p.scale.has_value THEN num_inputs - 1 ELSE num_inputs

\* .set_num_outputs of _backward_broadcast_rayleigh
BackwardRayleighNumOutputs(p) ==
  LET num_outputs == 1
  IN  IF p.scale.has_value THEN num_outputs - 1 ELSE num_outputs

\* A node of _npi_rayleigh after its attributes were parsed: the type vectors
\* have one entry per input and per output.
InitRayleigh ==
  /\ op_param \in RayleighParams
  /\ in_attrs \in [0..(RayleighNumInputs(op_param) - 1) -> TypeFlags]
  /\ out_attrs \in [0..(RayleighNumOutputs - 1) -> TypeFlags]
  /\ op_results = << >>
  /\ infer_in = << >>

\* The graph asks callback `name`, which answers `result`
Answer(name, result) ==
  op_results' = [n \in DOMAIN op_results \cup {name} |->
                   IF n = name THEN result ELSE op_results[n]]

CallNumInputs ==
  /\ Answer("num_inputs", RayleighNumInputs(op_param))
  /\ UNCHANGED <<op_param, in_attrs, out_attrs, infer_in>>
  /\ UNCHANGED <<swapVars, bwdVars, creatorVars>>

CallNumOutputs ==
  /\ Answer("num_outputs", RayleighNumOutputs)
  /\ UNCHANGED <<op_param, in_attrs, out_attrs, infer_in>>
  /\ UNCHANGED <<swapVars, bwdVars, creatorVars>>

CallNumVisibleOutputs ==
  /\ Answer("FNumVisibleOutputs", RayleighNumVisibleOutputs(op_param))
  /\ UNCHANGED <<op_param, in_attrs, out_attrs, infer_in>>
  /\ UNCHANGED <<swapVars, bwdVars, creatorVars>>

CallListInputNames ==
  /\ Answer("FListInputNames", RayleighListInputNames(op_param))
  /\ UNCHANGED <<op_param, in_attrs, out_attrs, infer_in>>
  /\ UNCHANGED <<swapVars, bwdVars, creatorVars>>

\* FInferType(attrs, &in_attrs, &out_attrs): the two vectors are updated in place
CallInferType ==
  /\ LET r == RayleighInferType(op_param, in_attrs, out_attrs) IN
       /\ Answer("FInferType", r.ret)
       /\ in_attrs' = r.in_attrs
       /\ out_attrs' = r.out_attrs
  /\ infer_in' = in_attrs
  /\ UNCHANGED op_param
  /\ UNCHANGED <<swapVars, bwdVars, creatorVars>>

CallGradient ==
  /\ Answer("FGradient", RayleighGradientOp)
  /\ UNCHANGED <<op_param, in_attrs, out_attrs, infer_in>>
  /\ UNCHANGED <<swapVars, bwdVars, creatorVars>>

CallBackwardNumInputs ==
  /\ Answer("backward num_inputs", BackwardRayleighNumInputs(op_param))
  /\ UNCHANGED <<op_param, in_attrs, out_attrs, infer_in>>
  /\ UNCHANGED <<swapVars, bwdVars, creatorVars>>

CallBackwardNumOutputs ==
  /\ Answer("backward num_outputs", BackwardRayleighNumOutputs(op_param))
  /\ UNCHANGED <<op_param, in_attrs, out_attrs, infer_in>>
  /\ UNCHANGED <<swapVars, bwdVars, creatorVars>>

NextRayleigh ==
  \/ CallNumInputs
  \/ CallNumOutputs
  \/ CallNumVisibleOutputs
  \/ CallListInputNames
  \/ CallInferType
  \/ CallGradient
  \/ CallBackwardNumInputs
  \/ CallBackwardNumOutputs

IdleRayleigh ==
  /\ op_param = [scale |-> [has_value |-> FALSE, value |-> 0]]
  /\ in_attrs = << >> /\ out_attrs = << >> /\ op_results = << >> /\ infer_in = << >>

(***************************************************************************)
(* The specifications.                                                     *)
(***************************************************************************)
Init == InitBwd /\ IdleSwap /\ IdleCreator /\ IdleRayleigh
Next == NextBwd
Spec == Init /\ [][Next]_vars

SwapInit == InitSwap /\ IdleBwd /\ IdleCreator /\ IdleRayleigh
SpecSwap == SwapInit /\ [][NextSwap]_vars

CreatorInit == InitCreator /\ IdleSwap /\ IdleBwd /\ IdleRayleigh
SpecCreator == CreatorInit /\ [][NextCreator]_vars

RayleighInit == InitRayleigh /\ IdleSwap /\ IdleBwd /\ IdleCreator
SpecRayleigh == RayleighInit /\ [][NextRayleigh]_vars

(***************************************************************************)
(* Claims about IOLogicalSwapDesc and GetDeconvWeightsDesc (SpecSwap).     *)
(***************************************************************************)
\* desc with the axes at positions a and a + 1 exchanged and nothing else changed
Transposed(desc, a) ==
  [ndims |-> desc.ndims, format_kind |-> desc.format_kind,
   inner_nblks |-> desc.inner_nblks,
   axes |-> [i \in 0..(desc.ndims - 1) |->
               IF i = a THEN desc.axes[a + 1]
               ELSE IF i = a + 1 THEN desc.axes[a]
               ELSE desc.axes[i]]]

\* C2: IOLogicalSwapDesc exchanges positions 0 and 1 when num_group <= 1 and
\* positions 1 and 2 when num_group > 1, and leaves every other axis where it
\* was; GetDeconvWeightsDesc is that swap applied to GetWeightDesc.
C2_SwapIsOneTransposition ==
  LET a == IF sw_group <= 1 THEN 0 ELSE 1 IN
  /\ (sw_count > 0 /\ sw_prev.ndims >= a + 2) => sw_desc = Transposed(sw_prev, a)
  /\ (sw_arr # NoArr) => sw_wdesc = Transposed(GetWeightDesc(sw_arr, sw_group), a)

\* goihw => giohw happened, and GetDeconvWeightsDesc answered for grouped weights
C2_Witness ==
  /\ sw_count = 1 /\ sw_group > 1 /\ sw_prev.ndims = 5
  /\ sw_desc.axes[1].ax = 2 /\ sw_desc.axes[2].ax = 1 /\ sw_desc.axes[0].ax = 0
  /\ sw_arr # NoArr /\ sw_wdesc.ndims = 6 /\ sw_wdesc.axes[1].ax = 2

CtorOrder == <<"fwd_pd", "bwd_data_pd", "bwd_weights_pd", "bwd_data", "bwd_weights">>

\* C1: the constructor creates one forward primitive descriptor from the read
\* tensors (out_grad as the forward output), then both backward descriptors
\* from that very descriptor, and the two backward primitives only after
\* their descriptors; nothing else is created and nothing out of this order.
C1_BackwardDescsFromOneForwardDesc ==
  /\ Len(created) <= Len(CtorOrder)
  /\ \A i \in 1..Len(created) : created[i] = CtorOrder[i]
  /\ fwd_pd # NoPd =>
       fwd_pd.tensors = [data |-> "data", weights |-> "weights",
                         bias |-> IF param.no_bias THEN "nullptr" ELSE "bias",
                         out |-> "out_grad"]
  /\ bwd_data_pd # NoPd => (fwd_pd # NoPd /\ bwd_data_pd.hint = fwd_pd)
  /\ bwd_weights_pd # NoPd =>
       (fwd_pd # NoPd /\ bwd_data_pd # NoPd /\ bwd_weights_pd.hint = fwd_pd)
  /\ bwd_data # NoPrim => (bwd_data_pd # NoPd /\ bwd_data.pd = bwd_data_pd)
  /\ bwd_weights # NoPrim =>
       (bwd_weights_pd # NoPd /\ bwd_weights.pd = bwd_weights_pd)
  /\ pc \in {"constructed", "execute"} =>
       (bwd_data # NoPrim /\ bwd_weights # NoPrim /\ created = CtorOrder)

\* a constructor ran to its end for an operator with a bias
C1_Witness ==
  /\ pc = "constructed" /\ ~param.no_bias
  /\ bwd_data.pd.hint = fwd_pd /\ bwd_weights.pd.hint = fwd_pd
  /\ fwd_pd.tensors.out = "out_grad" /\ fwd_pd.tensors.bias = "bias"

\* C8: IOSwapWeightsTensors swaps weights exactly when the data gradient is
\* requested, swaps weights_grad exactly when the weights gradient or the
\* bias gradient is requested, and reads no entry of req outside its size.
C8_SwapFollowsRequests ==
  call.name = "IOSwapWeightsTensors" =>
    /\ call.swapped_weights <=> (req[kData] # "kNullOp")
    /\ call.swapped_weights_grad <=>
         \/ req[kWeight] # "kNullOp"
         \/ (kBias \in DOMAIN req /\ req[kBias] # "kNullOp")
    /\ ~call.read_outside

\* C10: WeightsGradMem reuses weights_grad in place with output action Noop
\* exactly when req is kWriteTo and the diff_weights descriptor is in the
\* default format after a logical swap; otherwise it hands weights_grad, the
\* unswapped descriptor and the same req to CreateMKLDNNWeightGrad.
C10_WeightsGradMemReusesInPlace ==
  call.name = "WeightsGradMem" =>
    LET md == bwd_weights_pd.diff_weights_desc
        a == IF param.num_group > 1 THEN 1 ELSE 0
        cond == req[kWeight] = "kWriteTo" /\ IsDefaultFormat(Transposed(md, a))
        r == call.result
    IN  /\ (r.out_op = "Noop" /\ r.mem = "CreateMKLDNNData") <=> cond
        /\ cond => (r.arr = "weights_grad" /\ r.desc = md)
        /\ ~cond => /\ r.mem = "CreateMKLDNNWeightGrad"
                    /\ r.arr = "weights_grad" /\ r.desc = md /\ r.req = req[kWeight]

\* grouped weights, a diff_weights layout that is plain in the array's own
\* axis order, req kWriteTo: the gradient array was reused in place
C10_Witness ==
  /\ call.name = "WeightsGradMem" /\ param.num_group > 1
  /\ req[kWeight] = "kWriteTo"
  /\ ~IsDefaultFormat(bwd_weights_pd.diff_weights_desc)
  /\ call.result.out_op = "Noop"
  /\ weights_grad.mem_desc = bwd_weights_pd.diff_weights_desc

(***************************************************************************)
(* Claims about DeconvDescCreator (SpecCreator).                           *)
(***************************************************************************)
\* C3: CheckImplSizeReq answers true exactly when the three sizes equal the
\* sizes of the current data, weights and output descriptors (the bias
\* descriptor plays no part), and the call changes no descriptor.
C3_CheckImplSizeReqExact ==
  /\ [](cr_call.name = "CheckImplSizeReq" =>
          (cr_call.result <=>
             /\ cr_call.data_size = GetMemDescSize(data_md)
             /\ cr_call.weights_size = GetMemDescSize(weights_md)
             /\ cr_call.out_size = GetMemDescSize(out_md)))
  /\ [][cr_call'.name = "CheckImplSizeReq" =>
          UNCHANGED <<data_md, weights_md, bias_md, out_md>>]_vars

\* a creator with a bias descriptor refused an implementation whose output
\* alone needs more than the planned buffer
C3_Witness ==
  /\ cr_call.name = "CheckImplSizeReq" /\ ~cr_call.result
  /\ bias_md # NoDesc
  /\ cr_call.data_size = GetMemDescSize(data_md)
  /\ cr_call.weights_size = GetMemDescSize(weights_md)
  /\ cr_call.out_size > GetMemDescSize(out_md)

(***************************************************************************)
(* Claims about the operator registrations (SpecRayleigh).                 *)
(***************************************************************************)
Asked(name) == name \in DOMAIN op_results

\* C5: _npi_rayleigh has 0 inputs when scale has a value and 1 when it has
\* none; FListInputNames lists exactly that many names (none, or "input1");
\* there are always 2 outputs, 1 of them visible.
C5_InputCountMatchesNames ==
  LET n == IF op_param.scale.has_value THEN 0 ELSE 1 IN
  /\ Asked("num_inputs") => op_results["num_inputs"] = n
  /\ Asked("FListInputNames") =>
       /\ Len(op_results["FListInputNames"]) = n
       /\ op_results["FListInputNames"] \in {<< >>, <<"input1">>}
  /\ Asked("num_outputs") => op_results["num_outputs"] = 2
  /\ Asked("FNumVisibleOutputs") => op_results["FNumVisibleOutputs"] = 1

\* a node with a scale value was asked for its inputs and their names
C5_Witness ==
  /\ op_param.scale.has_value
  /\ Asked("num_inputs") /\ Asked("FListInputNames")
  /\ Asked("num_outputs") /\ Asked("FNumVisibleOutputs")
  /\ op_results["FListInputNames"] = << >>

\* C6: FInferType always answers true and leaves both outputs float32,
\* whatever the types before the call, and leaves the input types as they were.
C6_InferTypeSetsFloat32 ==
  Asked("FInferType") =>
    /\ op_results["FInferType"] = TRUE
    /\ out_attrs = [i \in 0..1 |-> "kFloat32"]
    /\ in_attrs = infer_in

\* inference ran, as the first callback, on a node with one input of unknown type
C6_Witness ==
  /\ DOMAIN op_results = {"FInferType"} /\ op_results["FInferType"] = TRUE
  /\ ~op_param.scale.has_value /\ infer_in = [i \in 0..0 |-> "-1"]
  /\ out_attrs = [i \in 0..1 |-> "kFloat32"]

\* C7: the gradient is _backward_broadcast_rayleigh, which has 5 inputs and 1
\* output without a scale value and 4 inputs and no output with one: its
\* outputs are as many as the forward inputs, its inputs 4 more than its outputs.
C7_BackwardCountsFollowForward ==
  LET has == op_param.scale.has_value IN
  /\ Asked("FGradient") => op_results["FGradient"] = "_backward_broadcast_rayleigh"
  /\ Asked("backward num_inputs") =>
       op_results["backward num_inputs"] = IF has THEN 4 ELSE 5
  /\ Asked("backward num_outputs") =>
       op_results["backward num_outputs"] = IF has THEN 0 ELSE 1
  /\ (Asked("backward num_outputs") /\ Asked("num_inputs")) =>
       op_results["backward num_outputs"] = op_results["num_inputs"]
  /\ (Asked("backward num_outputs") /\ Asked("backward num_inputs")) =>
       op_results["backward num_inputs"] = op_results["backward num_outputs"] + 4

\* forward and backward counts were asked for a node with a scale value
C7_Witness ==
  /\ op_param.scale.has_value
  /\ Asked("FGradient") /\ Asked("num_inputs")
  /\ Asked("backward num_inputs") /\ Asked("backward num_outputs")
  /\ op_results["backward num_inputs"] = 4


\* C11: for the weights gradient, OutGradMem returns the memory handed over
\* from the data gradient step exactly when there is one and its descriptor
\* is the backward-weights diff_dst descriptor; otherwise it returns out_grad
\* reordered to that descriptor.  Either way the memory returned has the
\* backward-weights diff_dst descriptor.
C11_OutGradMemReusedWhenSameLayout ==
  call.name = "OutGradMem(out_grad, out_grad_mem)" =>
    LET m == call.out_grad_mem
        want == bwd_weights_pd.diff_dst_desc
        reuse == m # NullMem /\ m.desc = want
    IN  /\ (call.result = m) <=> reuse
        /\ ~reuse => call.result = [desc |-> want, made_by |-> "bwd_weights_pd"]
        /\ (m = NullMem) => call.result.made_by = "bwd_weights_pd"
        /\ call.result.desc = want

\* the data gradient step ran, both backward descriptors chose the same
\* layout for the out gradient, and its memory was handed back
C11_Witness ==
  /\ call.name = "OutGradMem(out_grad, out_grad_mem)"
  /\ call.out_grad_mem # NullMem
  /\ call.out_grad_mem.made_by = "bwd_data_pd"
  /\ bwd_data_pd.diff_dst_desc = bwd_weights_pd.diff_dst_desc
  /\ call.result = call.out_grad_mem


\* The memory descriptors and dims an operation descriptor was built from
BuiltFromFields(d) ==
  /\ d.data = data_md /\ d.weights = weights_md /\ d.out = out_md
  /\ d.strides = strides /\ d.dilates = dilates
  /\ d.padding_l = padding /\ d.padding_r = padding

\* C12: at any moment, also after ImposePlainWherePadding changed descriptors,
\* CreateFwdDesc, CreateBwdDataDesc and CreateBwdWeightsDesc are built from
\* the creator's current data, weights and output descriptors and its
\* strides, dilates and padding (padding as left and right padding alike), so
\* they agree with each other; the forward and backward-weights descriptors
\* carry the bias descriptor and the backward-data descriptor has none;
\* creating a descriptor changes no field of the creator.
C12_OperationDescsAgree ==
  /\ [](/\ BuiltFromFields(CreateFwdDesc)
        /\ BuiltFromFields(CreateBwdDataDesc)
        /\ BuiltFromFields(CreateBwdWeightsDesc)
        /\ CreateFwdDesc.bias = bias_md
        /\ CreateBwdWeightsDesc.bias = bias_md
        /\ "bias" \notin DOMAIN CreateBwdDataDesc
        /\ cr_call.name \in {"CreateFwdDesc", "CreateBwdDataDesc", "CreateBwdWeightsDesc"} =>
             /\ BuiltFromFields(cr_call.result)
             /\ ("bias" \in DOMAIN cr_call.result) <=> (cr_call.name # "CreateBwdDataDesc")
             /\ ("bias" \in DOMAIN cr_call.result) => cr_call.result.bias = bias_md)
  /\ [][cr_call'.name \in {"CreateFwdDesc", "CreateBwdDataDesc", "CreateBwdWeightsDesc"} =>
          UNCHANGED <<data_md, weights_md, bias_md, out_md, strides, padding, dilates>>]_vars

\* a creator with a bias whose data descriptor was made plain, its weights
\* descriptor still open, and strides other than its dilates, handed out a
\* backward-weights descriptor
C12_Witness ==
  /\ cr_call.name = "CreateBwdWeightsDesc"
  /\ data_md.format_kind = "blocked" /\ weights_md.format_kind = "any"
  /\ bias_md # NoDesc /\ strides # dilates
  /\ cr_call.result.data = data_md /\ cr_call.result.bias = bias_md

=============================================================================
